---- MODULE Spec2Model ----
(***************************************************************************)
(* Channel operation specializer of the fast interpreter                   *)
(* (src/fast/channel.go): Comp.Recv, Comp.Recv1 and Comp.Send compile a    *)
(* channel receive or send into a closure; the closures are then run       *)
(* against an Env (Code, IP, variable slots) and a native channel.         *)
(* Package importer (src/unnamed/part_000): Importer.ImportPackageOrError  *)
(* and the package cache imports.Packages.                                  *)
(***************************************************************************)
EXTENDS Integers, Sequences, FiniteSets, TLC

VARIABLES
    ch,      \* the native channel: element type, capacity, buffer, closed flag, parked sender
    Code,    \* c.Code / env.Code: the flat instruction sequence of the function
    IP,      \* env.IP
    Vals,    \* env variable slot read by a non-constant Send operand
    rexpr,   \* the compiled receive expression (*Expr returned by Recv / Recv1)
    last,    \* outcome of the last call of Recv, Recv1 or Send: inputs, CompileError, output
    th,      \* logical thread running Code: "compile", "ready", "parked", "fault", "done"
    rx,      \* logical thread evaluating rexpr: status and the values it got back
    obs,     \* what the last executed channel closure did: path taken, outcome
    sent,    \* history: the operand values of the Sends not yet received, oldest first
    Packages,    \* imports.Packages: the package cache, a map from path to Package
    PluginOpen,  \* imp.PluginOpen of the Importer
    imported,    \* the last call of ImportPackageOrError: arguments, results, what it did
    succeeded    \* history: the paths for which ImportPackageOrError returned a package

\* the importer's part of the state
ivars == <<Packages, PluginOpen, imported, succeeded>>

vars == <<ch, Code, IP, Vals, rexpr, last, th, rx, obs, sent, ivars>>

----------------------------------------------------------------------------
(* Bounds of the model *)

MaxCap == 1
MaxCode == 2
MaxComp == 1

----------------------------------------------------------------------------
(* Type capability: kinds, identity against the predefined basic types,   *)
(* channel direction.  A Type is a record; two Types are the same Type    *)
(* exactly when the records are equal.                                     *)

ScalarKinds ==
    {"bool", "int", "int8", "int16", "int32", "int64",
     "uint", "uint8", "uint16", "uint32", "uint64", "uintptr",
     "float32", "float64", "complex64", "complex128", "string"}

RecvDir == 1
SendDir == 2
BothDir == 3

\* the predefined basic Type of a kind (never a named user type)
BasicType(k) == [kind |-> k, named |-> FALSE]

TypeOfBool == BasicType("bool")

\* expr.Type == nil: the expression has no value
NoType == [kind |-> "nil", named |-> FALSE]

ElemTypes ==
    [kind : ScalarKinds, named : BOOLEAN]
        \cup {[kind |-> "struct", named |-> TRUE], [kind |-> "interface", named |-> FALSE]}

ChanOf(dir, telem) == [kind |-> "chan", named |-> FALSE, dir |-> dir, elem |-> telem]

\* a named channel type (type C chan T) whose values carry that type at run
\* time; a named channel type represented at run time by its underlying
\* channel type behaves as ChanOf(dir, telem) in everything modelled here
NamedChanOf(dir, telem) == [kind |-> "chan", named |-> TRUE, dir |-> dir, elem |-> telem]

Kind(t) == t.kind

ChanDir(t) == IF t.kind = "chan" THEN t.dir ELSE 0

Elem(t) == t.elem

\* dir & bit, for the bits RecvDir = 1 and SendDir = 2
DirAnd(dir, bit) == IF (dir \div bit) % 2 = 1 THEN bit ELSE 0

IsBasic(t) == t.kind \in ScalarKinds /\ t = BasicType(t.kind)

AssignableTo(t, telem) == t = telem \/ telem.kind = "interface"

----------------------------------------------------------------------------
(* Values.  A native value of a scalar kind is a raw TLA+ value; a          *)
(* reflect.Value is a raw value tagged with its type.                       *)

IntKinds == {"int", "int8", "int16", "int32", "int64"}
UintKinds == {"uint", "uint8", "uint16", "uint32", "uint64", "uintptr"}
FloatKinds == {"float32", "float64"}
ComplexKinds == {"complex64", "complex128"}

\* width in bits of the kinds narrow enough for their wrap-around to be computed
Width(k) == IF k \in {"int8", "uint8"} THEN 8 ELSE 16

Pow2(n) == IF n = 8 THEN 256 ELSE 65536

Narrow(k) == k \in {"int8", "uint8", "int16", "uint16"}

\* faulty variant of Truncate: the sign of the narrow signed kinds lost
Truncate_NoSign(k, x) == IF ~Narrow(k) THEN x ELSE x % Pow2(Width(k))

\* Go conversion int8(x), uint16(x), ...: truncation to the width of the kind
Truncate(k, x) ==
    IF ~Narrow(k) THEN x
    ELSE IF k \in UintKinds THEN x % Pow2(Width(k))
    ELSE ((x + Pow2(Width(k)) \div 2) % Pow2(Width(k))) - Pow2(Width(k)) \div 2

\* reflect.Zero(t).Interface(): the zero value of a type
Zero(t) ==
    CASE t.kind = "bool" -> FALSE
      [] t.kind = "string" -> ""
      [] t.kind \in ComplexKinds -> [re |-> 0, im |-> 0]
      [] t.kind = "struct" -> [f |-> 0]
      [] t.kind = "interface" -> [nil |-> TRUE]
      [] OTHER -> 0

\* the values a variable of type t takes in the model: the zero value and one more
Raws(t) ==
    CASE t.kind = "bool" -> {FALSE, TRUE}
      [] t.kind = "string" -> {"", "a"}
      [] t.kind \in ComplexKinds -> {[re |-> 0, im |-> 0], [re |-> 7, im |-> 0]}
      [] t.kind = "struct" -> {[f |-> 0], [f |-> 7]}
      [] t.kind = "interface" -> {[nil |-> TRUE]}
      [] t.kind \in UintKinds -> {0, 9}
      [] OTHER -> {0, -7}

\* reflect.Value
ValueOf(t, raw) == [t |-> t, v |-> raw]

\* faulty variant of Unbox: every integer unboxed as an unsigned byte
Unbox_Unsigned(k, retv) ==
    IF k \in IntKinds \cup UintKinds THEN Truncate("uint8", retv.v) ELSE retv.v

\* retv.Bool(), int8(retv.Int()), uint(retv.Uint()), float32(retv.Float()),
\* complex64(retv.Complex()), retv.String(): unbox and convert to the kind
Unbox(k, retv) ==
    IF k \in IntKinds \cup UintKinds THEN Truncate(k, retv.v) ELSE retv.v

\* value.Convert(rtelem)
Convert(value, rtelem) ==
    IF rtelem.kind \in IntKinds \cup UintKinds
    THEN ValueOf(rtelem, Truncate(rtelem.kind, value.v))
    ELSE ValueOf(rtelem, value.v)

----------------------------------------------------------------------------
(* Operand expressions handed to the compiler *)

\* untyped constants appearing as Send operands
Constants ==
    {[ck |-> "int", i |-> 7], [ck |-> "int", i |-> 300],
     [ck |-> "bool", b |-> TRUE], [ck |-> "string", s |-> "a"]}

InRange(k, i) ==
    CASE k = "int8" -> i \in -128..127
      [] k = "uint8" -> i \in 0..255
      [] k = "int16" -> i \in -32768..32767
      [] k = "uint16" -> i \in 0..65535
      [] k \in UintKinds -> i >= 0
      [] OTHER -> TRUE

\* whether expr.ConstTo(telem) succeeds: the constant is representable in telem
ConstConvertible(c, telem) ==
    CASE c.ck = "int" ->
            \/ telem.kind \in IntKinds \cup UintKinds /\ InRange(telem.kind, c.i)
            \/ telem.kind \in FloatKinds \cup ComplexKinds \cup {"interface"}
      [] c.ck = "bool" -> telem.kind \in {"bool", "interface"}
      [] c.ck = "string" -> telem.kind \in {"string", "interface"}

\* expr.ConstTo(telem): the constant folded into a literal of type telem
\* (converted to its default type when telem is an interface)
ConstTo(c, telem) ==
    CASE c.ck = "bool" ->
            ValueOf(IF telem.kind = "interface" THEN BasicType("bool") ELSE telem, c.b)
      [] c.ck = "string" ->
            ValueOf(IF telem.kind = "interface" THEN BasicType("string") ELSE telem, c.s)
      [] c.ck = "int" /\ telem.kind \in ComplexKinds ->
            ValueOf(telem, [re |-> c.i, im |-> 0])
      [] OTHER ->
            ValueOf(IF telem.kind = "interface" THEN BasicType("int") ELSE telem, c.i)

\* a constant operand
ConstExpr(c) == [Const |-> TRUE, Value |-> c, Type |-> NoType, Fun |-> "none"]

\* a non-constant operand of static type t whose Fun has Go type func(*Env) sig,
\* sig being a scalar kind or "Value" for func(*Env) reflect.Value
DynExpr(t, sig) == [Const |-> FALSE, Value |-> [ck |-> "none"], Type |-> t, Fun |-> sig]

\* the Go type of the Fun of an expression of type t: by kind, or reflective
FunSigs(t) == IF t.kind \in ScalarKinds THEN {t.kind, "Value"} ELSE {"Value"}

\* Send operands: constants, and variables of the element type, of the two int8
\* types (assignable to some element types only) and of no type
ValueExprs(telem) ==
    {ConstExpr(c) : c \in Constants}
        \cup UNION {{DynExpr(t, sig) : sig \in FunSigs(t)} :
                        t \in {telem, BasicType("int8"), [kind |-> "int8", named |-> TRUE]}}
        \cup {DynExpr(NoType, "Value")}

\* an operand expression of static type t; Fun is "XV" when xe.Fun has Go type
\* func(*Env) (r.Value, []r.Value) and "X1" otherwise
OperandExpr(t, fun) == [Type |-> t, Fun |-> fun]

\* channel operands of Recv, Recv1 and Send: the channel seen through each
\* direction, and one operand that is no channel
ChanExprs(telem) ==
    {OperandExpr(ChanOf(d, telem), f) : d \in {RecvDir, SendDir, BothDir}, f \in {"X1", "XV"}}
        \cup {OperandExpr(telem, "X1")}

\* the same operands, and the channel seen through named channel types
NamedChanExprs(telem) ==
    ChanExprs(telem)
        \cup {OperandExpr(NamedChanOf(d, telem), "X1") : d \in {RecvDir, SendDir, BothDir}}

\* channel operands of Send, as c.Expr1(node.Chan) returns them
SendChanExprs(telem) == {xe \in ChanExprs(telem) : xe.Fun = "X1"}

----------------------------------------------------------------------------
(* Compiled closures.  A closure is a record naming what it does when run:  *)
(* path "native" works on the statically typed channel obtained by the type *)
(* assertion `assert`; path "reflect" works on the reflect.Value channel.   *)

NoFun == [op |-> "none"]
NoExpr == [Type |-> NoType, Types |-> <<>>, Fun |-> NoFun]
NoStmt == [op |-> "none"]
NoValue == [has |-> FALSE]

\* c.badUnaryExpr(msg, node, xe): raises the CompileError; no *Expr is returned
badUnaryExpr(msg, xe) == [err |-> msg, out |-> NoExpr]

\* exprXV(types, fun): a multi-valued expression
exprXV(types, fun) == [err |-> "", out |-> [Type |-> types[1], Types |-> types, Fun |-> fun]]

\* exprFun(telem, fun): a single-valued expression
exprFun(t, fun) == [err |-> "", out |-> [Type |-> t, Types |-> <<t>>, Fun |-> fun]]

\* the closure built by Recv: retv, ok := channel.Recv(), in both branches of
\* the switch on xe.Fun
RecvFun(xe) ==
    [op |-> "Recv", path |-> "reflect", channelfun |-> xe.Fun,
     chantype |-> NoType, assert |-> NoType, ret |-> "Value"]

\* faulty variant of Recv: the direction is checked before the kind
Recv_DirFirst(xe) ==
    LET t == xe.Type IN
    IF DirAnd(ChanDir(t), RecvDir) = 0
    THEN badUnaryExpr("cannot receive from send-only channel", xe)
    ELSE IF Kind(t) # "chan" THEN badUnaryExpr("expecting channel, found", xe)
    ELSE exprXV(<<Elem(t), TypeOfBool>>, RecvFun(xe))

\* faulty variant of Recv: the two result Types swapped
Recv_SwappedTypes(xe) ==
    LET t == xe.Type IN
    IF Kind(t) # "chan" THEN badUnaryExpr("expecting channel, found", xe)
    ELSE IF DirAnd(ChanDir(t), RecvDir) = 0
    THEN badUnaryExpr("cannot receive from send-only channel", xe)
    ELSE exprXV(<<TypeOfBool, Elem(t)>>, RecvFun(xe))

Recv(xe) ==
    LET t == xe.Type IN
    IF Kind(t) # "chan" THEN badUnaryExpr("expecting channel, found", xe)
    ELSE IF DirAnd(ChanDir(t), RecvDir) = 0
    THEN badUnaryExpr("cannot receive from send-only channel", xe)
    ELSE exprXV(<<Elem(t), TypeOfBool>>, RecvFun(xe))

\* the Go result type of the closure built by Recv1 for an element kind
RetOf(telem) == IF telem.kind \in ScalarKinds THEN telem.kind ELSE "Value"

\* Recv1, xe.Fun of type func(*Env) (r.Value, []r.Value): one reflective
\* closure per element kind
Recv1FunXV(xe) ==
    [op |-> "Recv1", path |-> "reflect", channelfun |-> "XV",
     chantype |-> NoType, assert |-> NoType, ret |-> RetOf(Elem(xe.Type))]

\* faulty variants of the test below: every case comparing against the basic
\* type of one kind; the kind alone deciding
Recv1IsUserType_OneBasic(telem) == telem # BasicType("bool")
Recv1IsUserType_KindOnly(telem) == telem.kind # BasicType(telem.kind).kind

\* the test `telem != BasicType(kind)` of each scalar case of Recv1
Recv1IsUserType(telem) == telem # BasicType(telem.kind)

\* Recv1, any other xe.Fun: per element kind, reflective for a user type,
\* else native on <-chan T (recvonly) or chan T
Recv1FunX1(xe) ==
    LET t == xe.Type
        telem == Elem(t)
        recvonly == ChanDir(t) = RecvDir
    IN  IF telem.kind \notin ScalarKinds
        THEN [op |-> "Recv1", path |-> "reflect", channelfun |-> "X1",
              chantype |-> NoType, assert |-> NoType, ret |-> "Value"]
        ELSE IF Recv1IsUserType(telem)
        THEN [op |-> "Recv1", path |-> "reflect", channelfun |-> "X1",
              chantype |-> NoType, assert |-> NoType, ret |-> telem.kind]
        ELSE IF recvonly
        THEN [op |-> "Recv1", path |-> "native", channelfun |-> "X1", chantype |-> t,
              assert |-> ChanOf(RecvDir, BasicType(telem.kind)), ret |-> telem.kind]
        ELSE [op |-> "Recv1", path |-> "native", channelfun |-> "X1", chantype |-> t,
              assert |-> ChanOf(BothDir, BasicType(telem.kind)), ret |-> telem.kind]

Recv1(xe) ==
    LET t == xe.Type IN
    IF Kind(t) # "chan" THEN badUnaryExpr("expecting channel, found", xe)
    ELSE IF DirAnd(ChanDir(t), RecvDir) = 0
    THEN badUnaryExpr("cannot receive from send-only channel", xe)
    ELSE exprFun(Elem(t), IF xe.Fun = "XV" THEN Recv1FunXV(xe) ELSE Recv1FunX1(xe))

\* c.Errorf(format, ...): raises the CompileError; Send returns without a statement.
\* exprs lists the operands compiled by c.Expr1 before the error
Errorf(msg, exprs) == [err |-> msg, out |-> NoStmt, exprs |-> exprs]

\* `switch telem { case xr.TypeOfBool: ... case xr.TypeOfString: }`: whether
\* telem is one of the seventeen predefined basic types
SendIsBasic(telem) == telem.kind \in ScalarKinds /\ telem = BasicType(telem.kind)

\* `exprfun, ok := expr.Fun.(func(*Env) T)` in the non-constant cases of Send
SendFunIsNative(telem, expr) == expr.Fun = telem.kind

\* the Send instruction for a constant operand
SendConstStmt(t, telem, expr) ==
    LET sendonly == ChanDir(t) = SendDir
        v == ConstTo(expr.Value, telem)
    IN  IF SendIsBasic(telem)
        THEN [op |-> "Send", path |-> "native", const |-> TRUE, chantype |-> t,
              assert |-> ChanOf(IF sendonly THEN SendDir ELSE BothDir, telem),
              value |-> [has |-> TRUE, val |-> ValueOf(telem, Unbox(telem.kind, v))],
              exprfun |-> NoValue, rtelem |-> NoType, src |-> expr]
        ELSE [op |-> "Send", path |-> "reflect", const |-> TRUE, chantype |-> NoType,
              assert |-> NoType,
              value |-> [has |-> TRUE, val |-> v],
              exprfun |-> NoValue, rtelem |-> NoType, src |-> expr]

\* faulty variant of SendDynStmt: no instruction built when no native case
\* was taken
SendDynStmt_NoFallback(t, telem, expr) ==
    LET sendonly == ChanDir(t) = SendDir
    IN  IF SendIsBasic(telem) /\ SendFunIsNative(telem, expr)
        THEN [op |-> "Send", path |-> "native", const |-> FALSE, chantype |-> t,
              assert |-> ChanOf(IF sendonly THEN SendDir ELSE BothDir, telem),
              value |-> NoValue,
              exprfun |-> expr, rtelem |-> NoType, src |-> expr]
        ELSE NoStmt

\* the Send instruction for a non-constant operand
SendDynStmt(t, telem, expr) ==
    LET sendonly == ChanDir(t) = SendDir
    IN  IF SendIsBasic(telem) /\ SendFunIsNative(telem, expr)
        THEN [op |-> "Send", path |-> "native", const |-> FALSE, chantype |-> t,
              assert |-> ChanOf(IF sendonly THEN SendDir ELSE BothDir, telem),
              value |-> NoValue,
              exprfun |-> expr, rtelem |-> NoType, src |-> expr]
        ELSE [op |-> "Send", path |-> "reflect", const |-> FALSE, chantype |-> NoType,
              assert |-> NoType,
              value |-> NoValue,
              exprfun |-> expr, rtelem |-> telem, src |-> expr]

\* faulty variant of the test below: the nil Type not looked at
SendNotAssignable_NoNil(expr, telem) == ~AssignableTo(expr.Type, telem)

\* `expr.Type == nil || !expr.Type.AssignableTo(telem)`
SendNotAssignable(expr, telem) == expr.Type = NoType \/ ~AssignableTo(expr.Type, telem)

\* Comp.Send once the channel operand passed its checks: the value operand is
\* compiled, converted (constant) or checked (non-constant), and the
\* instruction is built
SendOperand(t, expr) ==
    LET telem == Elem(t) IN
    IF expr.Const
    THEN IF ~ConstConvertible(expr.Value, telem)
         THEN Errorf("cannot convert constant", <<"Chan", "Value">>)
         ELSE [err |-> "", out |-> SendConstStmt(t, telem, expr),
               exprs |-> <<"Chan", "Value">>]
    ELSE IF SendNotAssignable(expr, telem)
    THEN Errorf("cannot use as type in send", <<"Chan", "Value">>)
    ELSE [err |-> "", out |-> SendDynStmt(t, telem, expr),
          exprs |-> <<"Chan", "Value">>]

\* faulty variant of Send: the direction of the channel is not checked
Send_NoDirCheck(channel, expr) ==
    LET t == channel.Type IN
    IF Kind(t) # "chan"
    THEN Errorf("cannot send to non-channel type", <<"Chan">>)
    ELSE SendOperand(t, expr)

\* Comp.Send up to c.Code.Append(stmt): the CompileError raised, or the
\* instruction to append
Send(channel, expr) ==
    LET t == channel.Type IN
    IF Kind(t) # "chan"
    THEN Errorf("cannot send to non-channel type", <<"Chan">>)
    ELSE IF DirAnd(ChanDir(t), SendDir) = 0
    THEN Errorf("cannot send to receive-only channel type", <<"Chan">>)
    ELSE SendOperand(t, expr)

----------------------------------------------------------------------------
(* The compiler's state and its three operations *)

NoCall == [call |-> "none"]

\* element types of the channels that are also executed
RunElemTypes ==
    {BasicType("int8"), [kind |-> "int8", named |-> TRUE], [kind |-> "struct", named |-> TRUE]}

\* make(chan telem, cap)
NewChan(telem, cap) ==
    [elem |-> telem, cap |-> cap, buf |-> <<>>, closed |-> FALSE, sendq |-> <<>>]

InitWith(types, caps) ==
    /\ ch \in {NewChan(telem, cap) : telem \in types, cap \in caps}
    /\ Code = <<>>
    /\ IP = 0
    /\ Vals = Zero(ch.elem)
    /\ rexpr = NoExpr
    /\ last = NoCall
    /\ th = "compile"
    /\ rx = [st |-> "idle", ret |-> NoValue]
    /\ obs = [op |-> "none"]
    /\ sent = <<>>
    /\ Packages = <<>>
    /\ PluginOpen = "Invalid"
    /\ imported = [call |-> "none"]
    /\ succeeded = {}

\* c.Recv(node, xe)
CompRecv(xe) ==
    /\ th = "compile"
    /\ LET r == Recv(xe) IN
        /\ last' = [call |-> "Recv", err |-> r.err, out |-> r.out, exprs |-> <<>>]
        /\ rexpr' = IF r.err = "" THEN r.out ELSE rexpr
    /\ UNCHANGED <<ch, Code, IP, Vals, th, rx, obs, sent, ivars>>

\* c.Recv1(node, xe)
CompRecv1(xe) ==
    /\ th = "compile"
    /\ LET r == Recv1(xe) IN
        /\ last' = [call |-> "Recv1", err |-> r.err, out |-> r.out, exprs |-> <<>>]
        /\ rexpr' = IF r.err = "" THEN r.out ELSE rexpr
    /\ UNCHANGED <<ch, Code, IP, Vals, th, rx, obs, sent, ivars>>

\* c.Send(node), node.Chan compiling to channel and node.Value to expr,
\* ending with c.Code.Append(stmt); at most max instructions are compiled
CompSend(channel, expr, max) ==
    /\ th = "compile"
    /\ Len(Code) < max
    /\ LET r == Send(channel, expr) IN
        /\ last' = [call |-> "Send", err |-> r.err, out |-> r.out, exprs |-> r.exprs]
        /\ Code' = IF r.err = "" THEN Append(Code, r.out) ELSE Code
    /\ UNCHANGED <<ch, IP, Vals, rexpr, th, rx, obs, sent, ivars>>

Compile(max) ==
    \/ \E xe \in ChanExprs(ch.elem) : CompRecv(xe)
    \/ \E xe \in ChanExprs(ch.elem) : CompRecv1(xe)
    \/ \E channel \in SendChanExprs(ch.elem), expr \in ValueExprs(ch.elem) :
            CompSend(channel, expr, max)

InitComp == InitWith(ElemTypes, {0})

NextComp == Compile(MaxComp)

\* the compiler alone, over every element type
SpecComp == InitComp /\ [][NextComp]_vars

----------------------------------------------------------------------------
(* The native channel primitive (blocking send, blocking receive, close),   *)
(* as the closures use it: `channel <- value`, `<-channel`,                 *)
(* channel.Send(v), channel.Recv().                                         *)

\* send of raw value v: panics on a closed channel, hands the value to a
\* parked receiver, takes a free buffer slot, or parks the sender with its value
chansend(c, v, receiverParked) ==
    IF c.closed THEN [st |-> "panic", ch |-> c]
    ELSE IF receiverParked THEN [st |-> "handoff", ch |-> c]
    ELSE IF Len(c.buf) < c.cap THEN [st |-> "done", ch |-> [c EXCEPT !.buf = Append(@, v)]]
    ELSE [st |-> "park", ch |-> [c EXCEPT !.sendq = Append(@, v)]]

\* faulty variant of chanrecv: the value of a parked sender overtakes the buffer
chanrecv_Overtake(c) ==
    IF c.sendq # <<>>
    THEN [st |-> "done", val |-> Head(c.sendq), ok |-> TRUE, wake |-> TRUE,
          ch |-> [c EXCEPT !.sendq = Tail(@)]]
    ELSE IF Len(c.buf) > 0
    THEN [st |-> "done", val |-> Head(c.buf), ok |-> TRUE, wake |-> FALSE,
          ch |-> [c EXCEPT !.buf = Tail(@)]]
    ELSE IF c.closed
    THEN [st |-> "done", val |-> Zero(c.elem), ok |-> FALSE, wake |-> FALSE, ch |-> c]
    ELSE [st |-> "park", val |-> Zero(c.elem), ok |-> FALSE, wake |-> FALSE, ch |-> c]

\* faulty variant of chanrecv: a receive that never parks (an open, empty
\* channel yields the zero value at once)
chanrecv_NoBlock(c) ==
    IF Len(c.buf) > 0
    THEN [st |-> "done", val |-> Head(c.buf), ok |-> TRUE, wake |-> c.sendq # <<>>,
          ch |-> [c EXCEPT !.buf = Tail(@) \o c.sendq, !.sendq = <<>>]]
    ELSE IF c.sendq # <<>>
    THEN [st |-> "done", val |-> Head(c.sendq), ok |-> TRUE, wake |-> TRUE,
          ch |-> [c EXCEPT !.sendq = Tail(@)]]
    ELSE [st |-> "done", val |-> Zero(c.elem), ok |-> FALSE, wake |-> FALSE, ch |-> c]

\* receive: the head of the buffer (a parked sender then moves into the freed
\* slot and is woken), else the value of a parked sender, else the zero value
\* and ok = false on a closed channel, else the receiver parks
chanrecv(c) ==
    IF Len(c.buf) > 0
    THEN [st |-> "done", val |-> Head(c.buf), ok |-> TRUE, wake |-> c.sendq # <<>>,
          ch |-> [c EXCEPT !.buf = Tail(@) \o c.sendq, !.sendq = <<>>]]
    ELSE IF c.sendq # <<>>
    THEN [st |-> "done", val |-> Head(c.sendq), ok |-> TRUE, wake |-> TRUE,
          ch |-> [c EXCEPT !.sendq = Tail(@)]]
    ELSE IF c.closed
    THEN [st |-> "done", val |-> Zero(c.elem), ok |-> FALSE, wake |-> FALSE, ch |-> c]
    ELSE [st |-> "park", val |-> Zero(c.elem), ok |-> FALSE, wake |-> FALSE, ch |-> c]

----------------------------------------------------------------------------
(* Running the compiled closures *)

\* base.True, base.False
True == ValueOf(TypeOfBool, TRUE)
False == ValueOf(TypeOfBool, FALSE)

\* faulty variant of OkValue: the two branches swapped
OkValue_Swapped(ok) == IF ok THEN False ELSE True

\* `if ok { okv = base.True } else { okv = base.False }` of the Recv closures
OkValue(ok) == IF ok THEN True ELSE False

\* faulty variant of RecvResult: the ok flag of channel.Recv() dropped, okv
\* always base.True
RecvResult_OkTrue(fun, telem, val, ok) ==
    LET retv == ValueOf(telem, val) IN
    IF fun.op = "Recv"
    THEN [has |-> TRUE, first |-> retv, rest |-> <<retv, True>>]
    ELSE IF fun.path = "native"
    THEN [has |-> TRUE, first |-> val, rest |-> <<>>]
    ELSE IF fun.ret = "Value"
    THEN [has |-> TRUE, first |-> retv, rest |-> <<>>]
    ELSE [has |-> TRUE, first |-> Unbox(fun.ret, retv), rest |-> <<>>]

\* what a receive closure returns once the channel yielded (val, ok):
\* Recv returns retv, []r.Value{retv, okv};
\* Recv1 returns the unboxed retv (reflective), retv itself (non-scalar
\* element) or the value read from the native channel
RecvResult(fun, telem, val, ok) ==
    LET retv == ValueOf(telem, val) IN
    IF fun.op = "Recv"
    THEN [has |-> TRUE, first |-> retv, rest |-> <<retv, OkValue(ok)>>]
    ELSE IF fun.path = "native"
    THEN [has |-> TRUE, first |-> val, rest |-> <<>>]
    ELSE IF fun.ret = "Value"
    THEN [has |-> TRUE, first |-> retv, rest |-> <<>>]
    ELSE [has |-> TRUE, first |-> Unbox(fun.ret, retv), rest |-> <<>>]

\* channelfun(env).Interface().(chan T): the type assertion of the native closures
AssertOK(fun) == fun.path = "native" => fun.chantype = fun.assert

\* faulty variant of SendValue: the constant operand read again from the
\* environment at each execution
SendValue_Reread(stmt, env) ==
    IF stmt.const THEN ValueOf(stmt.value.val.t, env)
    ELSE IF stmt.path = "native" THEN ValueOf(stmt.exprfun.Type, env)
    ELSE LET value == ValueOf(stmt.exprfun.Type, env) IN
         IF value.t # stmt.rtelem THEN Convert(value, stmt.rtelem) ELSE value

\* faulty variant of SendValue: the generic path without its conversion
SendValue_NoConvert(stmt, env) ==
    IF stmt.const THEN stmt.value.val
    ELSE ValueOf(stmt.exprfun.Type, env)

\* the r.Value a Send instruction passes to channel.Send, or whose raw value
\* it sends on the native channel:
\* constant operand: the literal embedded at compile time;
\* native operand: exprfun(env); reflective operand: exprfun(env), converted
\* to rtelem when its type differs
SendValue(stmt, env) ==
    IF stmt.const THEN stmt.value.val
    ELSE IF stmt.path = "native" THEN ValueOf(stmt.exprfun.Type, env)
    ELSE LET value == ValueOf(stmt.exprfun.Type, env) IN
         IF value.t # stmt.rtelem THEN Convert(value, stmt.rtelem) ELSE value

\* faulty variants of SendOutcome: env.IP++ missing; env.IP++ also when the
\* send panics; env.IP++ also when the send parks
SendOutcome_NoIncr(c, v, receiverParked, ip) ==
    LET r == chansend(c, v, receiverParked) IN
    [st |-> r.st, ch |-> r.ch, IP |-> ip]

SendOutcome_IPOnPanic(c, v, receiverParked, ip) ==
    LET r == chansend(c, v, receiverParked) IN
    [st |-> r.st, ch |-> r.ch, IP |-> IF r.st \in {"done", "handoff", "panic"} THEN ip + 1 ELSE ip]

SendOutcome_IPOnPark(c, v, receiverParked, ip) ==
    LET r == chansend(c, v, receiverParked) IN
    [st |-> r.st, ch |-> r.ch, IP |-> IF r.st \in {"done", "handoff", "park"} THEN ip + 1 ELSE ip]

\* the body of every Send closure after its operands are evaluated:
\*     channel <- value  (or channel.Send(value));  env.IP++;  return env.Code[env.IP], env
\* st is how the send ended, IP the instruction pointer it leaves
SendOutcome(c, v, receiverParked, ip) ==
    LET r == chansend(c, v, receiverParked) IN
    [st |-> r.st, ch |-> r.ch, IP |-> IF r.st \in {"done", "handoff"} THEN ip + 1 ELSE ip]

\* the value of a Send operand as the program wrote it: the constant, or the
\* variable's value
SourceValue(stmt, env) ==
    IF ~stmt.const THEN env
    ELSE CASE stmt.src.Value.ck = "int" -> stmt.src.Value.i
           [] stmt.src.Value.ck = "bool" -> stmt.src.Value.b
           [] stmt.src.Value.ck = "string" -> stmt.src.Value.s

\* the trailing instruction of a function body: execution stops there
EndStmt == [op |-> "end"]

\* compilation of the function is over: its Code is closed by the terminal
\* instruction and handed to the executor
\* faulty variant of Run: the function is run without its terminal instruction
Run_NoEnd ==
    /\ th = "compile"
    /\ Code' = Code
    /\ th' = "ready"
    /\ last' = NoCall
    /\ UNCHANGED <<ch, IP, Vals, rexpr, rx, obs, sent, ivars>>

Run ==
    /\ th = "compile"
    /\ Code' = Append(Code, EndStmt)
    /\ th' = "ready"
    /\ last' = NoCall
    /\ UNCHANGED <<ch, IP, Vals, rexpr, rx, obs, sent, ivars>>

\* the instruction env.Code[env.IP]
Instr == Code[IP + 1]

\* a Send instruction runs: the channel and the value are evaluated, then
\*   - the send panics on a closed channel (or the type assertion fails):
\*     the thread faults, IP untouched;
\*   - a parked receiver gets the value directly, or a buffer slot takes it:
\*     env.IP++ and the next instruction is returned;
\*   - otherwise the thread parks inside `channel <- value`
ExecSend ==
    /\ th = "ready"
    /\ Instr.op = "Send"
    /\ LET stmt == Instr
           v == SendValue(stmt, Vals).v
           src == SourceValue(stmt, Vals)
           r == SendOutcome(ch, v, rx.st = "parked", IP)
       IN  IF ~AssertOK(stmt)
           THEN /\ th' = "fault"
                /\ obs' = [op |-> "Send", path |-> stmt.path, st |-> "assert", next |-> NoStmt]
                /\ UNCHANGED <<ch, IP, rx, sent>>
           ELSE /\ ch' = r.ch
                /\ IP' = r.IP
                /\ th' = CASE r.st = "panic" -> "fault"
                           [] r.st = "park" -> "parked"
                           [] OTHER -> th
                /\ rx' = IF r.st = "handoff"
                         THEN [rx EXCEPT !.st = "woken",
                                         !.got = [val |-> v, ok |-> TRUE, src |-> [val |-> src]]]
                         ELSE rx
                /\ sent' = IF r.st \in {"done", "park"} THEN Append(sent, src) ELSE sent
                /\ obs' = [op |-> "Send", path |-> stmt.path, st |-> r.st,
                           next |-> IF r.st \in {"done", "handoff"}
                                    THEN Code[r.IP + 1] ELSE NoStmt]
    /\ UNCHANGED <<Code, Vals, rexpr, last, ivars>>

\* a receiver took the value of the parked Send: `channel <- value` returns,
\* env.IP++ and the next instruction is returned
SendResume ==
    /\ th = "woken"
    /\ th' = "ready"
    /\ IP' = IP + 1
    /\ obs' = [op |-> "Send", path |-> Instr.path, st |-> "done", next |-> Code[IP' + 1]]
    /\ UNCHANGED <<ch, Code, Vals, rexpr, last, rx, sent, ivars>>

\* the terminal instruction: execution of the function stops
ExecEnd ==
    /\ th = "ready"
    /\ Instr.op = "end"
    /\ th' = "done"
    /\ UNCHANGED <<ch, Code, IP, Vals, rexpr, last, rx, obs, sent, ivars>>

\* what the history says a receive gets: the oldest Send not yet received,
\* or the zero value and ok = false
Expected(telem, pending) ==
    IF pending # <<>> THEN [val |-> Head(pending), ok |-> TRUE]
    ELSE [val |-> Zero(telem), ok |-> FALSE]

\* the closure of the compiled receive expression is called, on another
\* logical thread: it returns at once when the channel has a value, a parked
\* sender or is closed, and parks inside the receive otherwise
EvalRecv ==
    /\ th # "compile"
    /\ rexpr # NoExpr
    /\ rx.st = "idle"
    /\ LET fun == rexpr.Fun
           r == chanrecv(ch)
           pre == [closed |-> ch.closed, empty |-> ch.buf = <<>> /\ ch.sendq = <<>>]
       IN  IF ~AssertOK(fun)
           THEN /\ rx' = [st |-> "fault", ret |-> NoValue]
                /\ obs' = [op |-> fun.op, path |-> fun.path, st |-> "assert"]
                /\ UNCHANGED <<ch, th, sent>>
           ELSE IF r.st = "park"
           THEN /\ rx' = [st |-> "parked", ret |-> NoValue, got |-> NoValue]
                /\ obs' = [op |-> fun.op, path |-> fun.path, st |-> "park"]
                /\ UNCHANGED <<ch, th, sent>>
           ELSE /\ rx' = [st |-> "idle", ret |-> RecvResult(fun, ch.elem, r.val, r.ok)]
                /\ ch' = r.ch
                /\ th' = IF r.wake THEN "woken" ELSE th
                /\ sent' = IF sent # <<>> THEN Tail(sent) ELSE sent
                /\ obs' = [op |-> fun.op, path |-> fun.path, st |-> "done",
                           pre |-> pre, expect |-> Expected(ch.elem, sent)]
    /\ UNCHANGED <<Code, IP, Vals, rexpr, last, ivars>>

\* the parked receive was handed a value by a sender, or the zero value by
\* close: the closure returns
RecvResume ==
    /\ rx.st = "woken"
    /\ rx' = [st |-> "idle",
              ret |-> RecvResult(rexpr.Fun, ch.elem, rx.got.val, rx.got.ok)]
    /\ obs' = [op |-> rexpr.Fun.op, path |-> rexpr.Fun.path, st |-> "done",
               pre |-> [closed |-> rx.got.src = NoValue, empty |-> TRUE],
               expect |-> IF rx.got.src = NoValue
                          THEN Expected(ch.elem, <<>>)
                          ELSE Expected(ch.elem, <<rx.got.src.val>>)]
    /\ UNCHANGED <<ch, Code, IP, Vals, rexpr, last, th, sent, ivars>>

\* close(channel), by the surrounding program: a parked receiver is woken
\* with the zero value and ok = false, a parked sender panics
Close ==
    /\ th # "compile"
    /\ ~ch.closed
    /\ ch' = [ch EXCEPT !.closed = TRUE, !.sendq = <<>>]
    /\ th' = IF th = "parked" THEN "fault" ELSE th
    /\ sent' = IF th = "parked" THEN SubSeq(sent, 1, Len(sent) - 1) ELSE sent
    /\ rx' = IF rx.st = "parked"
             THEN [rx EXCEPT !.st = "woken",
                             !.got = [val |-> Zero(ch.elem), ok |-> FALSE, src |-> NoValue]]
             ELSE rx
    /\ UNCHANGED <<Code, IP, Vals, rexpr, last, obs, ivars>>

\* the variable read by non-constant Send operands is assigned by the
\* surrounding program
Assign(v) ==
    /\ th # "compile"
    /\ Vals # v
    /\ Vals' = v
    /\ UNCHANGED <<ch, Code, IP, rexpr, last, th, rx, obs, sent, ivars>>

Init == InitWith(RunElemTypes, 0..MaxCap)

Next ==
    \/ Compile(MaxCode)
    \/ Run
    \/ ExecSend
    \/ SendResume
    \/ ExecEnd
    \/ EvalRecv
    \/ RecvResume
    \/ Close
    \/ \E v \in Raws(ch.elem) : Assign(v)

Spec == Init /\ [][Next]_vars

\* the compiler given channel operands of named channel types too
CompileNamed(max) ==
    \/ \E xe \in NamedChanExprs(ch.elem) : CompRecv(xe)
    \/ \E xe \in NamedChanExprs(ch.elem) : CompRecv1(xe)
    \/ \E channel \in {xe \in NamedChanExprs(ch.elem) : xe.Fun = "X1"},
          expr \in ValueExprs(ch.elem) :
            CompSend(channel, expr, max)

NextNamed ==
    \/ CompileNamed(MaxComp)
    \/ Run
    \/ ExecSend
    \/ SendResume
    \/ ExecEnd
    \/ EvalRecv
    \/ RecvResume
    \/ Close
    \/ \E v \in Raws(ch.elem) : Assign(v)

\* the program of Spec, one Send long, compiled from operands that include
\* channels of named channel types
SpecNamed == Init /\ [][NextNamed]_vars

----------------------------------------------------------------------------
(* A Send closure run step by step, its operand expressions having side    *)
(* effects on the variable they also read.                                  *)

\* faulty variant of SendSteps: the value expression called first
SendSteps_ValueFirst(stmt) ==
    IF stmt.const THEN <<"channelfun", "send">> ELSE <<"exprfun", "channelfun", "send">>

\* the calls a Send closure makes, in the order of its body:
\*     channel := channelfun(env) [.Interface().(chan T)]
\*     channel <- exprfun(env)     or  value := exprfun(env); channel.Send(value)
\* a constant operand has no exprfun
SendSteps(stmt) ==
    IF stmt.const THEN <<"channelfun", "send">> ELSE <<"channelfun", "exprfun", "send">>

\* the calls already made by the Send being executed
EvalsSoFar == IF th = "ready" THEN <<>> ELSE obs.evals

\* the next call of the Send being executed
NextEval == SendSteps(Instr)[Len(EvalsSoFar) + 1]

\* the record of the Send being executed: the environment at its start, what
\* each operand expression saw and left, the value obtained
EvalLog ==
    IF th = "ready"
    THEN [op |-> "Send", path |-> Instr.path, const |-> Instr.const,
          st |-> "eval", next |-> NoStmt,
          evals |-> <<>>, env0 |-> Vals, chanSaw |-> NoValue, chanLeft |-> NoValue,
          valueSaw |-> NoValue, value |-> NoValue]
    ELSE obs

SendRunning ==
    /\ th \in {"ready", "running"}
    /\ Instr.op = "Send"
    /\ Len(EvalsSoFar) < Len(SendSteps(Instr))

\* channelfun(env) is called: it reads the environment and may assign the
\* variable (w) before it returns the channel
StepChan(w) ==
    /\ SendRunning
    /\ NextEval = "channelfun"
    /\ Vals' = w
    /\ th' = IF AssertOK(Instr) THEN "running" ELSE "fault"
    /\ obs' = [EvalLog EXCEPT !.evals = Append(@, "channelfun"),
                              !.chanSaw = [has |-> TRUE, env |-> Vals],
                              !.chanLeft = [has |-> TRUE, env |-> w]]
    /\ UNCHANGED <<ch, Code, IP, rexpr, last, rx, sent, ivars>>

\* exprfun(env) is called: it reads the variable, and may assign it (w) after
StepValue(w) ==
    /\ SendRunning
    /\ NextEval = "exprfun"
    /\ Vals' = w
    /\ th' = "running"
    /\ obs' = [EvalLog EXCEPT !.evals = Append(@, "exprfun"),
                              !.valueSaw = [has |-> TRUE, env |-> Vals],
                              !.value = [has |-> TRUE, val |-> SendValue(Instr, Vals)]]
    /\ UNCHANGED <<ch, Code, IP, rexpr, last, rx, sent, ivars>>

\* the communication, then env.IP++ and the return of the next instruction
StepSend ==
    /\ SendRunning
    /\ NextEval = "send"
    /\ LET v == IF Instr.const THEN SendValue(Instr, Vals).v ELSE obs.value.val.v
           r == SendOutcome(ch, v, rx.st = "parked", IP)
       IN  /\ ch' = r.ch
           /\ IP' = r.IP
           /\ th' = CASE r.st = "panic" -> "fault"
                      [] r.st = "park" -> "parked"
                      [] OTHER -> "ready"
           /\ sent' = IF r.st \in {"done", "park"} THEN Append(sent, v) ELSE sent
           /\ obs' = [EvalLog EXCEPT !.evals = Append(@, "send"), !.st = r.st,
                                     !.next = IF r.st = "done" THEN Code[r.IP + 1] ELSE NoStmt]
    /\ UNCHANGED <<Code, Vals, rexpr, last, rx, ivars>>

NextSteps ==
    \/ Compile(MaxComp)
    \/ Run
    \/ \E w \in Raws(ch.elem) : StepChan(w)
    \/ \E w \in Raws(ch.elem) : StepValue(w)
    \/ StepSend
    \/ ExecEnd

\* one Send compiled and run call by call
SpecSteps == Init /\ [][NextSteps]_vars

\* the same program under the scheduler's guarantee: a logical thread whose
\* blocked channel operation was satisfied is runnable and is eventually run
SpecLive == Spec /\ WF_vars(RecvResume) /\ WF_vars(SendResume)

----------------------------------------------------------------------------
(* The package importer: Importer.ImportPackageOrError and the package cache *)

\* package paths and import aliases tried
PkgPaths == {"plugin", "foo"}
Aliases == {"", "_b", "_i", "_3", "x"}

\* type ImportMode int: ImBuiltin, ImThirdParty, ImInception, ImPlugin
ImBuiltin == 0
ImThirdParty == 1
ImInception == 2
ImPlugin == 3
NoMode == -1

\* imports.Package{}: no Name, no Binds; Open tells whether Binds["Open"] is
\* a valid value
ZeroPackage == [Name |-> "", Open |-> FALSE]

\* the Package an init() function registers: Binds and Types, no Name; the
\* package "plugin" binds Open
InitPackage(path) == [Name |-> "", Open |-> path = "plugin"]

\* the Package found in a compiled plugin
PluginPackage(path) == [Name |-> path, Open |-> path = "plugin"]

NilRef == [nil |-> TRUE]
NoErr == [kind |-> "nil"]

\* o.MakeRuntimeError(format, ...)
MakeRuntimeError(format, path) == [kind |-> "RuntimeError", msg |-> format, path |-> path]

\* the error imp.Load returns when it fails: a RuntimeError or another error
LoadError(load) == [kind |-> load, msg |-> "load", path |-> ""]

\* pkg.DefaultName(path): sets the missing pkg.Name from the path
DefaultName(pkg, path) == [pkg EXCEPT !.Name = path]

\* faulty variant of LookupPackage: a Package without a Name counts as absent
LookupPackage_NamedOnly(alias, path, cache) ==
    IF path \notin DOMAIN cache \/ cache[path].Name = ""
    THEN [ref |-> NilRef, Packages |-> cache]
    ELSE [ref |-> [nil |-> FALSE, Path |-> path, Package |-> cache[path]],
          Packages |-> cache]

\* LookupPackage(alias, path): the package if already present in the cache,
\* its missing Name initialized and stored back
LookupPackage(alias, path, cache) ==
    IF path \notin DOMAIN cache
    THEN [ref |-> NilRef, Packages |-> cache]
    ELSE LET pkg == IF cache[path].Name = "" THEN DefaultName(cache[path], path)
                    ELSE cache[path]
         IN  [ref |-> [nil |-> FALSE, Path |-> path, Package |-> pkg],
              Packages |-> [cache EXCEPT ![path] = pkg]]

\* faulty variant of wrapImportError: a RuntimeError is wrapped again
wrapImportError_Rewrap(path, enableModule, err) ==
    IF enableModule
    THEN MakeRuntimeError("error loading package metadata", path)
    ELSE MakeRuntimeError("error loading package metadata, maybe you need to download", path)

\* imp.wrapImportError(path, enableModule, err)
wrapImportError(path, enableModule, err) ==
    IF err.kind = "RuntimeError"
    THEN err
    ELSE IF enableModule
    THEN MakeRuntimeError("error loading package metadata", path)
    ELSE MakeRuntimeError("error loading package metadata, maybe you need to download", path)

\* faulty variant of havePluginOpen: a failed lookup is not remembered
havePluginOpen_NoFailureCache(po, cache) ==
    LET found == "plugin" \in DOMAIN cache /\ cache["plugin"].Open
        po2 == IF po = "Invalid" /\ found THEN "Open" ELSE po
    IN  [ret |-> po2 = "Open", PluginOpen |-> po2, looked |-> po = "Invalid"]

\* imp.havePluginOpen(): imp.PluginOpen is the zero Value ("Invalid") until
\* the first call, which looks imports.Packages["plugin"].Binds["Open"] up
\* and stores it, or reflect.NoneR ("NoneR") when it is missing
havePluginOpen(po, cache) ==
    LET found == "plugin" \in DOMAIN cache /\ cache["plugin"].Open
        po2 == IF po = "Invalid" THEN (IF found THEN "Open" ELSE "NoneR") ELSE po
    IN  [ret |-> po2 # "NoneR", PluginOpen |-> po2, looked |-> po = "Invalid"]

\* `switch alias { case "_b": ... default: ... }` of ImportPackageOrError:
\* the mode, and imp.PluginOpen after it
SelectMode(alias, po, cache) ==
    CASE alias = "_b" -> [mode |-> ImBuiltin, PluginOpen |-> po, looked |-> FALSE]
      [] alias = "_i" -> [mode |-> ImInception, PluginOpen |-> po, looked |-> FALSE]
      [] alias = "_3" -> [mode |-> ImThirdParty, PluginOpen |-> po, looked |-> FALSE]
      [] OTHER ->
            LET h == havePluginOpen(po, cache)
            IN  [mode |-> IF h.ret THEN ImPlugin ELSE ImThirdParty,
                 PluginOpen |-> h.PluginOpen, looked |-> h.looked]

\* createImportFile(...): "" when the package exports nothing, the name of
\* the file written otherwise
createImportFile(pkgpath, mode, isEmpty) == IF isEmpty THEN "" ELSE "file.go"

\* imports.Packages.Merge(pkgs): every package of the plugin enters the cache
Merge(cache, pkgs) ==
    [p \in (DOMAIN cache) \cup pkgs |-> IF p \in pkgs THEN PluginPackage(p) ELSE cache[p]]

\* cache[path] = pkg
Store(cache, path, pkg) ==
    [p \in (DOMAIN cache) \cup {path} |-> IF p = path THEN pkg ELSE cache[p]]

\* what a call did: Load called, import file created, plugin compiled,
\* plugin.Open looked up, the mode chosen
Did(loaded, file, compiled, looked, mode) ==
    [loaded |-> loaded, file |-> file, compiled |-> compiled, looked |-> looked, mode |-> mode]

\* imp.ImportPackageOrError(alias, pkgpath, enableModule), the collaborators
\* answering: load is the outcome of imp.Load ("ok" or the kind of its
\* error), isEmpty that of writeImportFile, pkgs the paths of the packages
\* found in the compiled plugin
ImportPackageOrError(alias, pkgpath, enableModule, cache, po, load, isEmpty, pkgs) ==
    LET lk == LookupPackage(alias, pkgpath, cache) IN
    IF ~lk.ref.nil
    THEN [ref |-> lk.ref, err |-> NoErr, Packages |-> lk.Packages, PluginOpen |-> po,
          did |-> Did(FALSE, FALSE, FALSE, FALSE, NoMode)]
    ELSE IF load # "ok"
    THEN [ref |-> NilRef, err |-> wrapImportError(pkgpath, enableModule, LoadError(load)),
          Packages |-> lk.Packages, PluginOpen |-> po,
          did |-> Did(TRUE, FALSE, FALSE, FALSE, NoMode)]
    ELSE LET sel == SelectMode(alias, po, lk.Packages)
             file == createImportFile(pkgpath, sel.mode, isEmpty)
         IN  IF file = "" \/ sel.mode # ImPlugin
             THEN [ref |-> [nil |-> FALSE, Path |-> pkgpath, Package |-> ZeroPackage],
                   err |-> NoErr,
                   Packages |-> Store(lk.Packages, pkgpath, ZeroPackage),
                   PluginOpen |-> sel.PluginOpen,
                   did |-> Did(TRUE, file # "", FALSE, sel.looked, sel.mode)]
             ELSE LET merged == Merge(lk.Packages, pkgs) IN
                  IF pkgpath \in DOMAIN merged
                  THEN [ref |-> [nil |-> FALSE, Path |-> pkgpath, Package |-> merged[pkgpath]],
                        err |-> NoErr, Packages |-> merged, PluginOpen |-> sel.PluginOpen,
                        did |-> Did(TRUE, TRUE, TRUE, sel.looked, sel.mode)]
                  ELSE [ref |-> NilRef,
                        err |-> MakeRuntimeError("the compiled plugin does not contain it", pkgpath),
                        Packages |-> merged, PluginOpen |-> sel.PluginOpen,
                        did |-> Did(TRUE, TRUE, TRUE, sel.looked, sel.mode)]

\* the cache as the init() functions of the linked packages leave it
InitCaches == {[p \in S |-> InitPackage(p)] : S \in SUBSET PkgPaths}

\* DefaultImporter(o), the channel part of the state at rest
InitImport ==
    /\ ch = NewChan(BasicType("int8"), 0)
    /\ Code = <<>>
    /\ IP = 0
    /\ Vals = Zero(ch.elem)
    /\ rexpr = NoExpr
    /\ last = NoCall
    /\ th = "compile"
    /\ rx = [st |-> "idle", ret |-> NoValue]
    /\ obs = [op |-> "none"]
    /\ sent = <<>>
    /\ Packages \in InitCaches
    /\ PluginOpen = "Invalid"
    /\ imported = [call |-> "none"]
    /\ succeeded = {}

\* one call of imp.ImportPackageOrError
Import(alias, pkgpath, enableModule, load, isEmpty, pkgs) ==
    LET r == ImportPackageOrError(alias, pkgpath, enableModule, Packages, PluginOpen,
                                  load, isEmpty, pkgs)
    IN  /\ Packages' = r.Packages
        /\ PluginOpen' = r.PluginOpen
        /\ imported' = [call |-> "ImportPackageOrError", alias |-> alias, path |-> pkgpath,
                        cached |-> pkgpath \in DOMAIN Packages,
                        load |-> IF r.did.loaded THEN load ELSE "none",
                        ref |-> r.ref, err |-> r.err, did |-> r.did]
        /\ succeeded' = IF r.err = NoErr THEN succeeded \cup {pkgpath} ELSE succeeded
        /\ UNCHANGED <<ch, Code, IP, Vals, rexpr, last, th, rx, obs, sent>>

NextImport ==
    \E alias \in Aliases, pkgpath \in PkgPaths, enableModule \in BOOLEAN,
       load \in {"ok", "error", "RuntimeError"}, isEmpty \in BOOLEAN,
       pkgs \in SUBSET PkgPaths :
        Import(alias, pkgpath, enableModule, load, isEmpty, pkgs)

SpecImport == InitImport /\ [][NextImport]_vars

----------------------------------------------------------------------------
(* Properties *)

\* the path of the closure the last compiler call built
PathOf(l) == IF l.call = "Send" THEN l.out.path ELSE l.out.Fun.path
AssertOf(l) == IF l.call = "Send" THEN l.out.assert ELSE l.out.Fun.assert

\* C1, as stated: whenever Recv, Recv1 or Send compiles for a channel whose
\* element Type is exactly a predefined basic type, the closure built works
\* on the native channel.
C1_AlwaysNative ==
    (last.call \in {"Recv", "Recv1", "Send"} /\ last.err = "" /\ IsBasic(ch.elem))
        => PathOf(last) = "native"

C1_Step ==
    /\ (last'.call = "Recv" /\ last'.err = "") =>
            \A xe \in ChanExprs(ch.elem) :
                CompRecv(xe) => last'.out.Fun.path = "reflect"
    /\ (last'.call = "Recv1" /\ last'.err = "" /\ IsBasic(ch.elem)) =>
            \A xe \in ChanExprs(ch.elem) :
                CompRecv1(xe) =>
                    IF xe.Fun = "XV"
                    THEN last'.out.Fun.path = "reflect"
                    ELSE /\ last'.out.Fun.path = "native"
                         /\ last'.out.Fun.assert = ChanOf(ChanDir(xe.Type), ch.elem)
    /\ (last'.call = "Send" /\ last'.err = "" /\ IsBasic(ch.elem)) =>
            \A channel \in SendChanExprs(ch.elem), expr \in ValueExprs(ch.elem) :
                (last'.out.src = expr /\ CompSend(channel, expr, MaxComp)) =>
                    IF expr.Const \/ expr.Fun = ch.elem.kind
                    THEN /\ last'.out.path = "native"
                         /\ last'.out.assert = ChanOf(ChanDir(channel.Type), ch.elem)
                    ELSE last'.out.path = "reflect"

\* C1, amended: for a channel whose element Type is exactly a predefined
\* basic type, Recv1 on an operand whose Fun is not multi-valued builds a
\* closure on the native <-chan T (receive-only) or chan T, and Send of a
\* constant or of an operand whose Fun has the native type func(*Env) T builds
\* one on the native chan<- T (send-only) or chan T; the two-value Recv, Recv1
\* on a multi-valued operand and Send of any other operand always go through
\* the reflective channel value.
C1_NativeWhenBasic == [][C1_Step]_vars

\* C1 witness: a native Send was just compiled next to a native Recv1
C1_Witness ==
    /\ last.call = "Send" /\ last.err = "" /\ last.out.path = "native"
    /\ rexpr.Fun.op = "Recv1" /\ rexpr.Fun.path = "native"
    /\ ch.elem.kind = "complex64"

\* C2: when the element Type has a scalar kind but is not the predefined basic
\* Type of that kind, the closure Recv1 or Send builds never takes the native
\* path (no type assertion to a native channel type): it goes through the
\* reflective channel value, whatever the kind and the direction.
C2_UserTypeReflective ==
    (/\ last.call \in {"Recv1", "Send"} /\ last.err = ""
     /\ ch.elem.kind \in ScalarKinds /\ ~IsBasic(ch.elem))
        => PathOf(last) = "reflect" /\ AssertOf(last) = NoType

\* C2 witness: a Send was compiled for a channel of a user type of kind
\* uint16, next to a Recv1
C2_Witness ==
    /\ last.call = "Send" /\ last.err = ""
    /\ rexpr.Fun.op = "Recv1"
    /\ ch.elem = [kind |-> "uint16", named |-> TRUE]

\* the raw value a completed receive returned: Recv and the non-scalar Recv1
\* return a reflect.Value, the scalar Recv1 closures a native value
Observed(fun, ret) ==
    IF fun.op = "Recv" \/ fun.ret = "Value" THEN ret.first.v ELSE ret.first

\* the same element kind, named where telem is predefined and predefined
\* where telem is named
Twin(telem) == [kind |-> telem.kind, named |-> ~telem.named]

\* the Recv1 closure for a channel of element type telem and direction dir
Recv1Closure(dir, telem) == Recv1(OperandExpr(ChanOf(dir, telem), "X1")).out.Fun

\* C3: tier equivalence.  The compiled receive expression has the channel's
\* element Type; every completed receive, native or reflective, returns the
\* value the program sent (the oldest one not yet received) or the zero value
\* of a closed and drained channel, with the matching ok flag; and the Recv1
\* closure of the other tier (the channel of the twin element type: named for
\* predefined, predefined for named) returns the identical value for it.
C3_TierEquivalence ==
    /\ rexpr # NoExpr => rexpr.Type = ch.elem
    /\ (obs.op \in {"Recv", "Recv1"} /\ obs.st = "done") =>
            /\ Observed(rexpr.Fun, rx.ret) = obs.expect.val
            /\ obs.op = "Recv" => rx.ret.rest[2] = OkValue(obs.expect.ok)
            /\ ch.elem.kind \in ScalarKinds =>
                    \A dir \in {RecvDir, BothDir} :
                        LET own == Recv1Closure(dir, ch.elem)
                            twin == Recv1Closure(dir, Twin(ch.elem))
                        IN  /\ own.path # twin.path
                            /\ RecvResult(twin, Twin(ch.elem), obs.expect.val, obs.expect.ok).first
                                  = RecvResult(own, ch.elem, obs.expect.val, obs.expect.ok).first
                            /\ RecvResult(own, ch.elem, obs.expect.val, obs.expect.ok).first
                                  = obs.expect.val

\* C3 witness: a reflective Recv1 on a channel of a named int8 type returned
\* the negative value that was sent
C3_Witness ==
    /\ obs.op = "Recv1" /\ obs.path = "reflect" /\ obs.st = "done"
    /\ ch.elem = [kind |-> "int8", named |-> TRUE]
    /\ obs.expect.ok
    /\ rx.ret.first = -7

C4_Step ==
    last'.call \in {"Recv", "Recv1"} =>
        \A xe \in ChanExprs(ch.elem) :
            (CompRecv(xe) \/ CompRecv1(xe)) =>
                /\ last'.err = "" <=>
                        (Kind(xe.Type) = "chan" /\ ChanDir(xe.Type) \in {RecvDir, BothDir})
                /\ last'.err = "" => (rexpr' = last'.out /\ rexpr' # NoExpr)
                /\ Kind(xe.Type) # "chan" =>
                        /\ last'.err = "expecting channel, found"
                        /\ last'.out = NoExpr
                        /\ rexpr' = rexpr
                /\ (Kind(xe.Type) = "chan" /\ ChanDir(xe.Type) = SendDir) =>
                        /\ last'.err = "cannot receive from send-only channel"
                        /\ last'.out = NoExpr
                        /\ rexpr' = rexpr

\* C4: Recv and Recv1 yield a compiled expression exactly when the operand's
\* Type has channel kind and a direction with the receive bit; an operand of
\* non-channel kind fails with "expecting channel, found" (the kind is checked
\* first), a send-only channel with "cannot receive from send-only channel",
\* and in both failures no expression and no closure is built.
C4_RecvCompileErrors == [][C4_Step]_vars

\* C4 witness: Recv1 on a send-only channel just failed, after a Recv compiled
C4_Witness ==
    /\ last.call = "Recv1"
    /\ last.err = "cannot receive from send-only channel"
    /\ rexpr.Fun.op = "Recv"
    /\ ch.elem.kind = "float32"

C5_Step ==
    last'.call = "Send" =>
        \A channel \in SendChanExprs(ch.elem), expr \in ValueExprs(ch.elem) :
            (/\ CompSend(channel, expr, MaxComp)
             /\ (Kind(channel.Type) # "chan" \/ DirAnd(ChanDir(channel.Type), SendDir) = 0)) =>
                /\ last'.err = IF Kind(channel.Type) # "chan"
                               THEN "cannot send to non-channel type"
                               ELSE "cannot send to receive-only channel type"
                /\ last'.out = NoStmt
                /\ Code' = Code
                /\ last'.exprs = <<"Chan">>

\* C5: a Send whose channel operand is not of channel kind, or is a channel
\* without the send bit, fails to compile whatever the element type; no
\* instruction is appended to Code and only the channel operand has been
\* compiled when the error is raised.
C5_SendChannelErrors == [][C5_Step]_vars

\* C5 witness: a Send to a receive-only channel of strings just failed, with
\* Code still empty
C5_Witness ==
    /\ last.call = "Send"
    /\ last.err = "cannot send to receive-only channel type"
    /\ last.exprs = <<"Chan">>
    /\ Code = <<>>
    /\ ch.elem = BasicType("string")

C6_Step ==
    last'.call = "Send" =>
        \A channel \in SendChanExprs(ch.elem), expr \in ValueExprs(ch.elem) :
            (/\ CompSend(channel, expr, MaxComp)
             /\ Kind(channel.Type) = "chan"
             /\ DirAnd(ChanDir(channel.Type), SendDir) # 0) =>
                /\ last'.err = "" =>
                        /\ \/ expr.Const /\ ConstConvertible(expr.Value, ch.elem)
                           \/ /\ ~expr.Const
                              /\ expr.Type # NoType
                              /\ AssignableTo(expr.Type, ch.elem)
                        /\ Code' = Append(Code, last'.out)
                /\ (~expr.Const /\ (expr.Type = NoType \/ ~AssignableTo(expr.Type, ch.elem))) =>
                        /\ last'.err = "cannot use as type in send"
                        /\ last'.out = NoStmt
                        /\ Code' = Code
                /\ last'.err # "" => Code' = Code

\* C6: a Send to a sendable channel compiles only if the value operand is a
\* constant convertible to the element Type or a non-constant expression whose
\* Type is non-nil and assignable to the element Type; a non-constant operand
\* with no Type or a non-assignable Type fails with "cannot use ... as type
\* ... in send", and no failure appends an instruction to Code.
C6_SendOperandErrors == [][C6_Step]_vars

\* C6 witness: a Send of an operand the element type (an interface) cannot take
\* just failed, with Code still empty
C6_Witness ==
    /\ last.call = "Send"
    /\ last.err = "cannot use as type in send"
    /\ last.exprs = <<"Chan", "Value">>
    /\ Code = <<>>
    /\ ch.elem.kind = "interface"

\* what Recv and Recv1 return for the zero value of the element type
ZeroResult(fun, telem) ==
    LET zero == ValueOf(telem, Zero(telem)) IN
    [has |-> TRUE,
     first |-> IF fun.op = "Recv" \/ fun.ret = "Value" THEN zero ELSE Zero(telem),
     rest |-> IF fun.op = "Recv" THEN <<zero, False>> ELSE <<>>]

C7_Step ==
    /\ (EvalRecv /\ ch.closed /\ ch.buf = <<>> /\ ch.sendq = <<>>) =>
            /\ rx'.st = "idle"
            /\ rx'.ret = ZeroResult(rexpr.Fun, ch.elem)
            /\ ch' = ch
            /\ obs'.st = "done"
    /\ (RecvResume /\ ch.closed /\ ~rx.got.ok) =>
            rx'.ret = ZeroResult(rexpr.Fun, ch.elem)

C8_OkFlag ==
    (obs.op = "Recv" /\ obs.st = "done") =>
        /\ rx.ret.rest[2] \in {True, False}
        /\ rx.ret.rest[2] = False <=> (obs.pre.closed /\ obs.pre.empty)
        /\ rx.ret.rest[2] = True <=> obs.expect.ok
        /\ rx.ret.rest[2] = True => rx.ret.first.v = obs.expect.val
        /\ (~obs.pre.closed /\ ~obs.pre.empty) =>
                (rx.ret.rest[2] = True /\ rx.ret.rest[1] = ValueOf(ch.elem, obs.expect.val))

\* C8 witness: a Recv on a closed channel that still held a sent value
\* returned it with ok = true
C8_Witness ==
    /\ obs.op = "Recv" /\ obs.st = "done"
    /\ obs.pre.closed /\ ~obs.pre.empty
    /\ rx.ret.rest[2] = True
    /\ ch.elem.kind = "int8"
    /\ rx.ret.first.v = -7

C9_Step ==
    /\ (ExecSend /\ ch.closed) =>
            /\ th' = "fault"
            /\ IP' = IP
            /\ ch' = ch
            /\ obs'.st = "panic"
    /\ (Close /\ th = "parked") =>
            /\ th' = "fault"
            /\ IP' = IP
            /\ ch'.buf = ch.buf /\ ch'.sendq = <<>>
    /\ th = "fault" => (th' = "fault" /\ IP' = IP /\ Code' = Code)

\* C9: a Send executed on a closed channel faults its thread, whichever
\* variant it is: env.IP is not incremented, the channel holds no new value,
\* and the thread, once faulted, executes no further instruction (the same
\* goes for a Send parked when the channel is closed).
C9_SendOnClosedFaults == [][C9_Step]_vars

\* C9 witness: the second Send of the function, a reflective one, faulted on
\* the closed channel after the first completed
C9_Witness ==
    /\ th = "fault"
    /\ obs.op = "Send" /\ obs.st = "panic" /\ obs.path = "reflect"
    /\ ch.closed
    /\ IP = 1

C10_Step ==
    /\ (ExecSend /\ ~ch.closed /\ Len(ch.buf) >= ch.cap /\ rx.st # "parked") =>
            /\ th' = "parked"
            /\ IP' = IP
            /\ ch'.buf = ch.buf
    /\ IP' # IP =>
            /\ IP' = IP + 1
            /\ th' = "ready"
            /\ \/ ExecSend /\ ch'.buf = Append(ch.buf, SendValue(Instr, Vals).v)
               \/ /\ ExecSend /\ rx.st = "parked" /\ rx'.st = "woken"
                  /\ rx'.got.val = SendValue(Instr, Vals).v
               \/ SendResume /\ th = "woken"
    /\ (th' = "woken" /\ th # "woken") => (th = "parked" /\ EvalRecv /\ IP' = IP)
    /\ th = "parked" => th' \in {"parked", "woken", "fault"}

\* C10: env.IP is advanced, by one, only by a Send whose value was accepted:
\* stored in a free buffer slot, handed to a parked receiver, or, for a parked
\* Send, taken by a receive.  A Send on an open channel that is unbuffered or
\* full, with no receiver waiting, parks its thread and leaves env.IP at its
\* pre-Send value.
C10_SendBlocksUntilAccepted == [][C10_Step]_vars

\* C10 witness: the second Send is parked on the full buffered channel, the
\* first one having completed
C10_Witness ==
    /\ th = "parked"
    /\ ch.cap = 1 /\ Len(ch.buf) = 1 /\ Len(ch.sendq) = 1
    /\ IP = 1

C11_Step ==
    /\ (EvalRecv /\ ~ch.closed /\ ch.buf = <<>> /\ ch.sendq = <<>>) =>
            /\ rx'.st = "parked"
            /\ rx'.ret = NoValue
            /\ ch' = ch
    /\ (rx.st = "parked" /\ rx'.st # "parked") =>
            /\ rx'.st = "woken"
            /\ \/ ExecSend /\ ~ch.closed /\ rx'.got.ok
               \/ Close /\ ~rx'.got.ok
    /\ (rx.st = "parked" /\ rx'.st = "parked") => rx'.ret = NoValue

Content(c) == c.buf \o c.sendq

C12_Step ==
    /\ Content(ch)' # Content(ch) =>
            \/ ExecSend /\ Content(ch)' = Append(Content(ch), SendValue(Instr, Vals).v)
            \/ /\ EvalRecv
               /\ Content(ch) # <<>>
               /\ Content(ch)' = Tail(Content(ch))
               /\ Observed(rexpr.Fun, rx'.ret) = Head(Content(ch))
            \/ Close /\ th = "parked" /\ th' = "fault" /\ Content(ch)' = ch.buf
    /\ (EvalRecv /\ Content(ch) # <<>>) =>
            /\ Content(ch)' = Tail(Content(ch))
            /\ Observed(rexpr.Fun, rx'.ret) = Head(Content(ch))
            /\ Observed(rexpr.Fun, rx'.ret) = Head(sent)
    /\ (ExecSend /\ ~ch.closed /\ rx.st = "parked") =>
            /\ Content(ch) = <<>> /\ Content(ch)' = <<>>
            /\ rx'.got.val = SendValue(Instr, Vals).v
            /\ rx'.got.val = SourceValue(Instr, Vals)
    /\ (RecvResume /\ rx.got.ok) =>
            /\ Observed(rexpr.Fun, rx'.ret) = rx.got.val
            /\ ch' = ch

\* C12: the channel's content changes only by a Send adding its value at the
\* end and by a receive taking and returning the oldest value, so the values
\* sent by the thread are received in the order sent, each exactly once (a
\* value handed to a waiting receive goes to it alone and the channel keeps no
\* copy); the values held are at every moment the values sent and not yet
\* received, whatever tiers the Send and the receive were compiled to.
C12_FIFO ==
    /\ [][C12_Step]_vars
    /\ [](Content(ch) = sent)

\* C12 witness: a reflective two-value Recv returned the value of the first
\* Send, a native one, while the value of the second Send is still in the
\* channel
C12_Witness ==
    /\ obs.op = "Recv" /\ obs.st = "done"
    /\ Len(Code) = 3 /\ Code[1].path = "native" /\ Code[2].path = "native"
    /\ ch.elem = BasicType("int8")
    /\ rx.ret.first.v = 7
    /\ ch.buf = <<-7>>

C13_Step ==
    /\ (ExecSend /\ ch.cap >= 1 /\ ch.buf = <<>> /\ ~ch.closed /\ rx.st # "parked") =>
            /\ th' = "ready"
            /\ IP' = IP + 1
            /\ ch'.buf = <<SourceValue(Instr, Vals)>>
            /\ sent' = <<SourceValue(Instr, Vals)>>
    /\ (EvalRecv /\ rexpr.Fun.op = "Recv1" /\ ch.cap >= 1 /\ Len(sent) = 1 /\ Len(ch.buf) = 1) =>
            /\ rx'.st = "idle"
            /\ rx'.ret.has
            /\ Observed(rexpr.Fun, rx'.ret) = sent[1]
            /\ rx'.ret.rest = <<>>
            /\ ch'.buf = <<>>

SendCompletes == (ExecSend /\ th' = "ready") \/ SendResume

C14_Step ==
    /\ SendCompletes =>
            /\ IP' = IP + 1
            /\ obs'.next = Code[IP + 2]
            /\ obs'.next = Code'[IP' + 1]
            /\ Vals' = Vals
            /\ Code' = Code
            /\ rexpr' = rexpr
    /\ IP' # IP => SendCompletes
    /\ (ExecSend /\ th' # "ready") => (IP' = IP /\ obs'.next = NoStmt /\ Vals' = Vals /\ Code' = Code)

\* C14: every completed Send, whichever its variant, increments env.IP by
\* exactly one, returns the instruction at the new Code[IP], and changes neither
\* a variable nor a Code entry; nothing else moves env.IP, so the instructions
\* before env.IP are the completed Sends and k of them leave env.IP at k.
C14_SendSequential ==
    /\ [][C14_Step]_vars
    /\ [](th # "compile" =>
            /\ IP \in 0..(Len(Code) - 1)
            /\ \A i \in 1..IP : Code[i].op = "Send")

\* C14 witness: two Sends of different tiers completed and the function ended
\* at its terminal instruction with env.IP = 2
C14_Witness ==
    /\ th = "done"
    /\ IP = 2
    /\ Len(Code) = 3
    /\ obs.op = "Send" /\ obs.st = "done" /\ obs.next = EndStmt
    /\ Code[1].path # Code[2].path

\* C15, as stated: the type assertion of a native Recv1 or Send closure
\* succeeds for every channel the operand yields, channels of named channel
\* types included: no execution of a compiled closure ends in a failed
\* assertion.
C15_AssertionNeverFails ==
    obs.op \in {"Recv", "Recv1", "Send"} => obs.st # "assert"

\* C16: the expression Recv1 returns has the channel's element Type as its
\* Type and only result Type, the expression Recv returns has the pair
\* (element Type, bool), for every element type and every operand that
\* compiles; run, the Recv closure returns two values, the first of them its
\* primary result and the second base.True or base.False, and the Recv1 closure
\* a single value.
C16_ResultTypes ==
    /\ (th = "compile" /\ Code = <<>>) =>
            \A telem \in ElemTypes : \A xe \in ChanExprs(telem) :
                /\ Recv1(xe).err = "" =>
                        /\ Recv1(xe).out.Type = telem
                        /\ Recv1(xe).out.Types = <<telem>>
                /\ Recv(xe).err = "" =>
                        /\ Recv(xe).out.Type = telem
                        /\ Recv(xe).out.Types = <<telem, TypeOfBool>>
    /\ rexpr # NoExpr =>
            /\ rexpr.Type = ch.elem
            /\ rexpr.Types = IF rexpr.Fun.op = "Recv" THEN <<ch.elem, TypeOfBool>> ELSE <<ch.elem>>
    /\ (obs.op = "Recv" /\ obs.st = "done") =>
            /\ Len(rx.ret.rest) = 2
            /\ rx.ret.rest[1] = rx.ret.first
            /\ rx.ret.first.t = rexpr.Types[1]
            /\ rx.ret.rest[2] \in {True, False}
            /\ rx.ret.rest[2].t = rexpr.Types[2]
    /\ (obs.op = "Recv1" /\ obs.st = "done") => rx.ret.rest = <<>>

\* C16 witness: a Recv on a channel of structs returned a value sent on it,
\* twice over, and true
C16_Witness ==
    /\ obs.op = "Recv" /\ obs.st = "done"
    /\ ch.elem.kind = "struct"
    /\ rexpr.Types = <<ch.elem, TypeOfBool>>
    /\ rx.ret.rest = <<ValueOf(ch.elem, [f |-> 7]), True>>
    /\ rx.ret.first = ValueOf(ch.elem, [f |-> 7])

C17_Step ==
    (ExecSend /\ Instr.const /\ ~ch.closed) =>
        LET lit == Instr.value.val IN
        /\ lit = ConstTo(Instr.src.Value, ch.elem)
        /\ lit.t = ch.elem
        /\ \A env \in Raws(ch.elem) : SendValue(Instr, env) = lit
        /\ \/ Content(ch)' = Append(Content(ch), lit.v)
           \/ rx.st = "parked" /\ rx'.got.val = lit.v /\ Content(ch)' = Content(ch)

\* C17: a Send of a constant carries the constant, converted at compile time
\* to the channel's element Type, inside the instruction and no operand
\* expression; each execution sends that literal, whatever the variables of
\* the environment hold.
C17_ConstantFolded ==
    /\ [][C17_Step]_vars
    /\ [](\A i \in 1..Len(Code) :
            (Code[i].op = "Send" /\ Code[i].const) =>
                /\ Code[i].value.has
                /\ Code[i].value.val.t = ch.elem
                /\ Code[i].exprfun = NoValue)

\* C17 witness: the reflective Send of the constant 7 put 7 on the channel
\* while the variable held -7
C17_Witness ==
    /\ obs.op = "Send" /\ obs.st = "done" /\ obs.path = "reflect"
    /\ Code[1].const
    /\ IP = 1
    /\ Vals = -7
    /\ ch.buf = <<7>>

IsPrefix(s, t) == Len(s) <= Len(t) /\ s = SubSeq(t, 1, Len(s))

C19_Log ==
    (obs.op = "Send" /\ ~obs.const) =>
        /\ IsPrefix(obs.evals, <<"channelfun", "exprfun", "send">>)
        /\ Len(obs.evals) >= 1 => obs.chanSaw.env = obs.env0
        /\ Len(obs.evals) >= 2 => obs.valueSaw.env = obs.chanLeft.env
        /\ (th = "ready" \/ th = "parked") => Len(obs.evals) = 3

C19_Step ==
    (StepSend /\ ~Instr.const) =>
        /\ obs.evals = <<"channelfun", "exprfun">>
        /\ LET v == SendValue(Instr, obs.valueSaw.env).v
               r == SendOutcome(ch, v, FALSE, IP)
           IN  /\ ch' = r.ch
               /\ sent' = Append(sent, v)
               /\ Content(ch') = Append(Content(ch), v)

\* C19: a Send with a non-constant operand, native or reflective, calls the
\* channel expression once and first, then the value expression once, and
\* communicates only after both: the channel expression sees the
\* environment as it was when the Send began, the value expression sees it
\* as the channel expression left it, and the value communicated is the one
\* the value expression read there
C19_EvaluationOrder == [][C19_Step]_vars /\ []C19_Log

\* C19 witness: a native and non-constant Send has communicated, the channel
\* expression having changed the variable that the value expression read
C19_Witness ==
    /\ obs.op = "Send" /\ ~obs.const /\ obs.path = "native"
    /\ obs.evals = <<"channelfun", "exprfun", "send">>
    /\ obs.chanLeft.env # obs.env0
    /\ obs.valueSaw.env = obs.chanLeft.env
    /\ obs.st = "done"
    /\ Content(ch) = <<obs.value.val.v>>

\* a compilation of a Send statement
SendCompiles ==
    \E channel \in SendChanExprs(ch.elem), expr \in ValueExprs(ch.elem), max \in 1..MaxCode :
        CompSend(channel, expr, max)

\* a compilation of a receive expression
RecvCompiles == \E xe \in ChanExprs(ch.elem) : CompRecv(xe) \/ CompRecv1(xe)

C20_Step ==
    /\ SendCompiles =>
            IF last'.err = ""
            THEN /\ Len(Code') = Len(Code) + 1
                 /\ SubSeq(Code', 1, Len(Code)) = Code
                 /\ Code'[Len(Code')] # NoStmt
                 /\ Code'[Len(Code')].op = "Send"
                 /\ Code'[Len(Code')].path \in {"native", "reflect"}
                 /\ Code'[Len(Code')] = last'.out
            ELSE Code' = Code
    /\ RecvCompiles => Code' = Code

\* C20: a Send compiled without error appends exactly one instruction at
\* the end of Code and leaves the earlier entries as they were, the
\* instruction being a Send closure (never nil) whichever variant was
\* chosen; a Send that fails to compile, a Recv and a Recv1 leave Code
\* unchanged
C20_SendAppendsOne == [][C20_Step]_vars

\* C20 witness: a constant native Send and then a non-constant reflective
\* Send were appended, and a receive compiled afterwards left both in place
C20_Witness ==
    /\ Len(Code) = 2
    /\ Code[1].op = "Send" /\ Code[1].const /\ Code[1].path = "native"
    /\ Code[2].op = "Send" /\ ~Code[2].const /\ Code[2].path = "reflect"
    /\ last.call = "Recv1" /\ last.err = ""
    /\ th = "compile"

C21_Step ==
    SendCompletes =>
        /\ IP' + 1 <= Len(Code')
        /\ obs'.next = Code'[IP' + 1]
        /\ obs'.next.op \in {"Send", "end"}

C21_Inv ==
    th # "compile" =>
        /\ Len(Code) >= 1
        /\ Code[Len(Code)] = EndStmt
        /\ \A i \in 1..Len(Code) : Code[i].op = "Send" => i < Len(Code)
        /\ IP \in 0..(Len(Code) - 1)
        /\ Instr.op \in {"Send", "end"}

\* C21: in a function whose Code ends with the terminal instruction, no Send
\* is the last entry of Code, env.IP always indexes an entry of Code, and
\* the Code[IP] looked up after the env.IP++ of a Send is an instruction of
\* the function (a Send or the terminal one)
C21_IPInsideCode == [][C21_Step]_vars /\ []C21_Inv

\* C21 witness: the last Send of a function completed and its lookup
\* returned the terminal instruction, the last entry of Code
C21_Witness ==
    /\ th = "ready"
    /\ Len(Code) = 2 /\ IP = 1
    /\ Code[1].op = "Send"
    /\ obs.op = "Send" /\ obs.st \in {"done", "handoff"}
    /\ obs.next = EndStmt
    /\ Instr = Code[Len(Code)]

\* a step is a call of ImportPackageOrError for path
Imports(path) == imported'.call = "ImportPackageOrError" /\ imported'.path = path

C22_Step ==
    \A path \in PkgPaths :
        /\ (Imports(path) /\ imported'.err = NoErr) =>
                /\ ~imported'.ref.nil
                /\ path \in DOMAIN Packages'
                /\ path \in succeeded'
        /\ (Imports(path) /\ path \in succeeded) =>
                /\ ~imported'.ref.nil
                /\ imported'.ref.Path = path
                /\ imported'.err = NoErr
                /\ imported'.cached
                /\ imported'.did = Did(FALSE, FALSE, FALSE, FALSE, NoMode)
                /\ DOMAIN Packages' = DOMAIN Packages
                /\ PluginOpen' = PluginOpen

\* C22: a path for which ImportPackageOrError returned a package, in any
\* mode and also when the package exports nothing, is in the package cache
\* and stays there; every later call for it, whatever the alias, returns a
\* package and no error without calling Load, creating an import file or
\* compiling a plugin
C22_ImportsCached == [][C22_Step]_vars /\ [](succeeded \subseteq DOMAIN Packages)

\* C22 witness: "foo" was imported without plugin support, which cached it,
\* and a later import of it under the alias "_i" was answered from the cache
C22_Witness ==
    /\ "plugin" \notin DOMAIN Packages
    /\ PluginOpen = "NoneR"
    /\ imported.call = "ImportPackageOrError"
    /\ imported.path = "foo" /\ imported.alias = "_i"
    /\ imported.cached /\ ~imported.did.loaded
    /\ "foo" \in succeeded
    /\ imported.ref.Package.Name = "foo"

C23_Step ==
    \A path \in PkgPaths :
        /\ (Imports(path) /\ imported'.load \in {"error", "RuntimeError"}) =>
                /\ imported'.ref = NilRef
                /\ imported'.err.kind = "RuntimeError"
                /\ imported'.load = "RuntimeError" => imported'.err = LoadError("RuntimeError")
                /\ imported'.load = "error" =>
                        /\ imported'.err # LoadError("error")
                        /\ imported'.err.path = path
                /\ ~imported'.did.file
                /\ ~imported'.did.compiled
                /\ Packages' = Packages
                /\ path \notin DOMAIN Packages'
                /\ succeeded' = succeeded
        /\ (Imports(path) /\ path \notin DOMAIN Packages) => imported'.did.loaded

\* C23: when Load fails, ImportPackageOrError returns no package and a
\* RuntimeError (the error of Load itself when that is one, a new one naming
\* the path otherwise), creates no import file, compiles no plugin and
\* leaves the package cache as it was; the path is still absent, and every
\* import of an absent path calls Load
C23_LoadFailure ==
    /\ [][C23_Step]_vars
    /\ [](imported.call = "ImportPackageOrError" =>
            (imported.load \in {"error", "RuntimeError"} => imported.path \notin DOMAIN Packages))

\* C23 witness: after "plugin" was imported, the import of "foo" failed in
\* Load with an ordinary error, which came back wrapped; "foo" is not cached
C23_Witness ==
    /\ imported.call = "ImportPackageOrError"
    /\ imported.path = "foo" /\ imported.load = "error"
    /\ imported.ref = NilRef
    /\ imported.err.kind = "RuntimeError" /\ imported.err.path = "foo"
    /\ "foo" \notin DOMAIN Packages
    /\ succeeded = {"plugin"}

\* plugin.Open is available to the Importer: already found, or not yet
\* looked up and bound in the cached package "plugin"
PluginAvailable ==
    \/ PluginOpen = "Open"
    \/ PluginOpen = "Invalid" /\ "plugin" \in DOMAIN Packages /\ Packages["plugin"].Open

C24_Step ==
    /\ \A path \in PkgPaths :
        (Imports(path) /\ path \notin DOMAIN Packages /\ imported'.load = "ok") =>
            LET alias == imported'.alias
                did == imported'.did
            IN  /\ alias = "_b" => did.mode = ImBuiltin
                /\ alias = "_i" => did.mode = ImInception
                /\ alias = "_3" => did.mode = ImThirdParty
                /\ alias \in {"_b", "_i", "_3"} => (~did.looked /\ PluginOpen' = PluginOpen)
                /\ alias \notin {"_b", "_i", "_3"} =>
                        /\ did.mode = IF PluginAvailable THEN ImPlugin ELSE ImThirdParty
                        /\ PluginOpen' = IF PluginAvailable THEN "Open" ELSE "NoneR"
                        /\ did.looked = (PluginOpen = "Invalid")
                /\ did.compiled = (did.mode = ImPlugin /\ did.file)
    /\ PluginOpen # "Invalid" => PluginOpen' = PluginOpen
    /\ (imported'.call = "ImportPackageOrError" /\ imported'.load # "ok") =>
            (imported'.did.mode = NoMode /\ ~imported'.did.compiled /\ PluginOpen' = PluginOpen)

\* C24: for a path not in the cache whose metadata loaded, the alias alone
\* selects ImBuiltin ("_b"), ImInception ("_i") or ImThirdParty ("_3"), and
\* any other alias selects ImPlugin when plugin.Open is available and
\* ImThirdParty when it is not; a plugin is compiled exactly when the mode is
\* ImPlugin and the generated file is not empty; the first lookup of
\* plugin.Open, found or not, is kept in imp.PluginOpen and never changes
C24_ModeSelection == [][C24_Step]_vars

\* C24 witness: plugin.Open was looked up once and not found; a later import
\* of an absent path under the alias "x" reused that answer and chose
\* ImThirdParty, writing a file and compiling nothing
C24_Witness ==
    /\ imported.call = "ImportPackageOrError"
    /\ imported.alias = "x" /\ ~imported.cached /\ imported.load = "ok"
    /\ PluginOpen = "NoneR"
    /\ ~imported.did.looked
    /\ imported.did.mode = ImThirdParty
    /\ imported.did.file /\ ~imported.did.compiled

\* C24 second witness: plugin support present, an import under an ordinary
\* alias compiled and loaded a plugin that holds the package
C24_PluginWitness ==
    /\ imported.call = "ImportPackageOrError"
    /\ imported.alias = "" /\ ~imported.cached
    /\ PluginOpen = "Open"
    /\ imported.did.mode = ImPlugin /\ imported.did.compiled
    /\ imported.err = NoErr
    /\ imported.ref.Package = PluginPackage(imported.path)

====
